---- MODULE Spec2Model ----
(***************************************************************************)
(* Chunked BLE file-transfer engine of the SalesTag recorder firmware      *)
(* (softwareV3/main/main.c): control-surface handlers, the transfer        *)
(* worker task, the credit semaphore, the GAP event callbacks and the      *)
(* record button, as one state machine.                                    *)
(*                                                                         *)
(* Text is modelled as sequences of one-character strings (a directory     *)
(* prefix is one token).  A file is a sequence of bytes.  The BLE stack,   *)
(* the file system and the peer are the environment: every outcome the     *)
(* code tests for is a nondeterministic choice.                            *)
(***************************************************************************)
EXTENDS Integers, Sequences, FiniteSets, TLC

(* ------------------------------ constants ------------------------------ *)

FT_PKT_MAX == 200
FT_MAX_RETRIES == 8
FILE_TRANSFER_HEADER_SIZE == 5
kMaxInFlight == 3
QueueLength == 8
DefaultMtu == 23
PathBufSize == 128
SD_MAX_PATH == 256
\* ble_att_set_preferred_mtu: the MTU the device asks for
PreferredMtu == 185

STAT_STARTED == 1
STAT_COMPLETE == 2
STAT_STOPPED_BY_HOST == 3
STAT_FILE_OPEN_FAIL == 16
STAT_NOTIFY_FAIL == 17
STAT_FILE_READ_FAIL == 19
STAT_BAD_CMD == 32
STAT_ALREADY_RUNNING == 33
STAT_BUSY == 34
STAT_NO_CONN == 35
STAT_PAUSED == 48
STAT_SUBSCRIPTION_REQUIRED == 64
STAT_NO_FILE == 80
STAT_LIST_READY == 96
STAT_FILE_SELECTED == 97
STAT_INVALID_INDEX == 98

(* ------------------------------- bounds -------------------------------- *)

\* events of one run that are counted: a command written by the peer, a
\* disturbance (disconnect, unsubscribe, card removal or return, button
\* press, MTU exchange, delivery reported with an error) or a fault (a
\* submission or a file operation failing for good)
MaxEvents == 2
\* chunks of the long file "a.raw" at the default MTU, less one
ChunksA == 4
\* the MTU a peer may negotiate instead of the default
BigMtu == 25

(* ------------------------------- helpers ------------------------------- *)

Min(a, b) == IF a < b THEN a ELSE b

RECURSIVE Flatten(_)
Flatten(ss) == IF ss = <<>> THEN <<>> ELSE Head(ss) \o Flatten(Tail(ss))

IsPrefix(s, t) == Len(s) <= Len(t) /\ SubSeq(t, 1, Len(s)) = s

\* strstr(hay, needle) != NULL
Contains(hay, needle) ==
    \E i \in 0..(Len(hay) - Len(needle)) : SubSeq(hay, i + 1, i + Len(needle)) = needle

RawExt == <<".", "r", "a", "w">>
RecDir == <<"/sdcard/rec">>

(* ----------------------------- file system ----------------------------- *)

\* bytes of the one-chunk file "b.raw"
SizeB == 10
\* bytes of a recording file that holds only its header
RecHeaderSize == 32

NameA == <<"a">> \o RawExt
NameB == <<"b">> \o RawExt
SizeA == ChunksA * (DefaultMtu - 3 - FILE_TRANSFER_HEADER_SIZE) + 5

\* a directory entry: name, regular file or not, size, modification time
Entry(nm, rg, sz, mt) == [name |-> nm, reg |-> rg, size |-> sz, mtime |-> mt]

\* the recordings directory at boot, in readdir order
BootDir == << Entry(NameA, TRUE, SizeA, 1), Entry(NameB, TRUE, SizeB, 2) >>

\* the directories the device may boot with: no recording yet, or two
BootDirs == { <<>>, BootDir }

PathOf(nm) == RecDir \o <<"/">> \o nm

\* the bytes of a file: every position holds a different value (mod 256), so
\* that a skipped, repeated or reordered byte shows
Content(e) == [i \in 1..e.size |-> (17 * e.mtime + i) % 256]

\* stat(path): the entries of the directory with this path (at most one)
Stat(d, path) == { i \in 1..Len(d) : PathOf(d[i].name) = path }
Exists(d, path) == Stat(d, path) # {}
EntryAt(d, path) == d[CHOOSE i \in Stat(d, path) : TRUE]

NewestMtime(d) == IF d = <<>> THEN 0
                  ELSE CHOOSE m \in {d[i].mtime : i \in 1..Len(d)} :
                         \A i \in 1..Len(d) : d[i].mtime <= m

\* open(O_CREAT | O_TRUNC) followed by writes: the entry is replaced or added
PutFile(d, nm, sz) ==
    LET keep == SelectSeq(d, LAMBDA e : e.name # nm)
    IN  Append(keep, Entry(nm, TRUE, sz, NewestMtime(d) + 1))

(* ---------------------------- file registry ---------------------------- *)

ToLower(c) == IF c = "R" THEN "r" ELSE IF c = "A" THEN "a" ELSE IF c = "W" THEN "w" ELSE c

\* strcasecmp(name + len - 4, ".raw") == 0, for len >= 4
HasRawSuffixNoCase(nm) ==
    /\ Len(nm) >= 4
    /\ [i \in 1..4 |-> ToLower(nm[Len(nm) - 4 + i])] = RawExt

\* strrchr(name, '.') and strcmp(ext, ".raw") == 0
HasRawExt(nm) ==
    /\ \E i \in 1..Len(nm) : nm[i] = "."
    /\ LET last == CHOOSE i \in 1..Len(nm) :
                      nm[i] = "." /\ \A j \in (i + 1)..Len(nm) : nm[j] # "."
       IN  SubSeq(nm, last, Len(nm)) = RawExt

\* the scan of find_latest_raw: best path and best mtime after the entries
\* from position i on
RECURSIVE LatestScan(_, _, _, _)
LatestScan(d, i, best, best_mtime) ==
    IF i > Len(d) THEN best
    ELSE IF HasRawSuffixNoCase(d[i].name) /\ d[i].reg /\ d[i].mtime > best_mtime
         THEN LatestScan(d, i + 1, PathOf(d[i].name), d[i].mtime)
         ELSE LatestScan(d, i + 1, best, best_mtime)

\* <<>> stands for ESP_ERR_NOT_FOUND
find_latest_raw(d) == LatestScan(d, 1, <<>>, 0)

\* the candidates file_transfer_select_file collects, in readdir order
Candidates(d) ==
    SelectSeq(d, LAMBDA e : e.reg /\ HasRawExt(e.name) /\ e.size > 0)

Swap(a, i, j) == [a EXCEPT ![i] = a[j], ![j] = a[i]]

\* a sort that only puts the first two entries in order
SortByMtimeFirstPair(a, i, j) ==
    IF Len(a) >= 2 /\ a[2].mtime > a[1].mtime THEN Swap(a, 1, 2) ELSE a

\* the exchange sort of file_transfer_select_file (indices from 1 here)
RECURSIVE SortByMtime(_, _, _)
SortByMtime(a, i, j) ==
    IF i >= Len(a) THEN a
    ELSE IF j > Len(a) THEN SortByMtime(a, i + 1, i + 2)
    ELSE IF a[j].mtime > a[i].mtime THEN SortByMtime(Swap(a, i, j), i, j + 1)
    ELSE SortByMtime(a, i, j + 1)

SortedCandidates(d) == SortByMtime(Candidates(d), 1, 2)

(* ---------------------------- packet framer ---------------------------- *)

\* payload_budget without the 3 bytes of the ATT notification header
payload_budget_NoAttHeader(mtu) ==
    LET m  == IF mtu <= 0 THEN DefaultMtu ELSE mtu
        b  == m - FILE_TRANSFER_HEADER_SIZE
        b1 == IF b < 1 THEN 1 ELSE b
    IN  IF b1 > FT_PKT_MAX - FILE_TRANSFER_HEADER_SIZE
        THEN FT_PKT_MAX - FILE_TRANSFER_HEADER_SIZE ELSE b1

payload_budget(mtu) ==
    LET m  == IF mtu <= 0 THEN DefaultMtu ELSE mtu
        b  == m - 3 - FILE_TRANSFER_HEADER_SIZE
        b1 == IF b < 1 THEN 1 ELSE b
    IN  IF b1 > FT_PKT_MAX - FILE_TRANSFER_HEADER_SIZE
        THEN FT_PKT_MAX - FILE_TRANSFER_HEADER_SIZE ELSE b1

\* BuildPacket with the two 16-bit fields written high byte first
BuildPacketBigEndian(seq, payload, eof) ==
    << (seq \div 256) % 256, seq % 256,
       (Len(payload) \div 256) % 256, Len(payload) % 256,
       IF eof THEN 1 ELSE 0 >> \o payload

\* the 5-byte header, little endian, followed by the payload
BuildPacket(seq, payload, eof) ==
    << seq % 256, (seq \div 256) % 256,
       Len(payload) % 256, (Len(payload) \div 256) % 256,
       IF eof THEN 1 ELSE 0 >> \o payload

\* the receiver's view of a packet
PktSeq(p) == p[1] + 256 * p[2]
PktLen(p) == p[3] + 256 * p[4]
PktEof(p) == p[5]
PktPayload(p) == SubSeq(p, FILE_TRANSFER_HEADER_SIZE + 1, Len(p))

(* -------------------------- raw audio storage -------------------------- *)

RAW_AUDIO_BUFFER_SIZE == 512
\* sizeof(raw_audio_sample_t)
RecSampleSize == 10
\* offset of total_samples in the header
TotalSamplesAt == 12

\* samples added to one recording, at most
MaxAdds == 514
\* what a short write() returns
PartialBytes == 7

\* write(fd, buf, len) returns len, fewer bytes, or -1
WriteOutcomes == { "ok", "partial", "fail" }
WriteResult(w, len) ==
    CASE w = "ok" -> len
      [] w = "partial" -> IF PartialBytes < len THEN PartialBytes ELSE len - 1
      [] w = "fail" -> -1

\* the bytes a write() added to the file
Landed(r) == IF r > 0 THEN r ELSE 0

Pow256(k) == IF k = 0 THEN 1 ELSE IF k = 1 THEN 256 ELSE IF k = 2 THEN 65536 ELSE 16777216

\* the little-endian total_samples field of the file after r bytes of a header
\* carrying the value new were written over one carrying old (-1: the file
\* has no such field yet)
HeaderField(old, new, r) ==
    LET k == r - TotalSamplesAt
    IN  IF k >= 4 THEN new
        ELSE IF k <= 0 THEN old
        ELSE IF old < 0 THEN -1
        ELSE (new % Pow256(k)) + (old \div Pow256(k)) * Pow256(k)

\* the state after raw_audio_storage_init, with no file written yet.
\* total_samples and size describe the file on the card; storedAt is the
\* buffer index of the last store (-1: none), stopped tells that the last
\* call that changed the file was a stop_recording that closed it, adds
\* counts the samples added to the current recording
RecorderInit ==
    [ s_current_fd |-> -1, s_is_recording |-> FALSE, s_samples_written |-> 0,
      s_file_size_bytes |-> 0, s_buffer_index |-> 0,
      total_samples |-> -1, size |-> 0,
      storedAt |-> -1, stopped |-> FALSE, adds |-> 0 ]

\* raw_audio_storage_stop_recording; fw: the flush, seekOk: lseek, hw: the
\* header rewrite
raw_audio_storage_stop_recording(st, fw, seekOk, hw) ==
    IF ~ st.s_is_recording \/ st.s_current_fd < 0 THEN st
    ELSE
    LET len     == st.s_buffer_index * RecSampleSize
        r       == WriteResult(fw, len)
        flushed == IF st.s_buffer_index = 0 THEN st
                   ELSE IF r # len
                   THEN [st EXCEPT !.size = @ + Landed(r), !.s_buffer_index = 0]
                   ELSE [st EXCEPT !.size = @ + r,
                                   !.s_samples_written = @ + st.s_buffer_index,
                                   !.s_file_size_bytes = @ + r,
                                   !.s_buffer_index = 0]
        h       == WriteResult(hw, RecHeaderSize)
        headed  == IF ~ seekOk THEN flushed
                   ELSE [flushed EXCEPT
                           !.total_samples =
                               HeaderField(@, flushed.s_samples_written, h),
                           !.size = IF Landed(h) > @ THEN Landed(h) ELSE @]
    IN  [headed EXCEPT !.s_current_fd = -1, !.s_is_recording = FALSE,
                       !.stopped = TRUE]

\* raw_audio_storage_start_recording; the first three outcomes are those of
\* the stop it calls when a recording is running, opened: open() succeeds,
\* hw: the write of the first header
raw_audio_storage_start_recording(st, fw, seekOk, hw0, opened, hw) ==
    LET st1 == IF st.s_is_recording
               THEN raw_audio_storage_stop_recording(st, fw, seekOk, hw0) ELSE st
        h   == WriteResult(hw, RecHeaderSize)
        st2 == [st1 EXCEPT !.s_current_fd = 3, !.s_is_recording = TRUE,
                           !.s_samples_written = 0, !.s_buffer_index = 0,
                           !.s_file_size_bytes = 0,
                           !.total_samples = HeaderField(-1, 0, h),
                           !.size = Landed(h),
                           !.stopped = FALSE, !.adds = 0, !.storedAt = -1]
    IN  IF ~ opened THEN [st1 EXCEPT !.s_current_fd = -1]
        ELSE IF h # RecHeaderSize
        THEN [st2 EXCEPT !.s_current_fd = -1, !.s_is_recording = FALSE]
        ELSE [st2 EXCEPT !.s_file_size_bytes = h]

\* the smallest and the largest sample sanitize_adc lets through
RecSampleValues == { 0, 4095 }

\* raw_audio_storage_add_sample; w: the write of the full buffer.  A store
\* at an index beyond the array is undefined: either nothing else changes, or
\* the store lands on s_buffer_index (hit), which then holds the sample value
\* clobber
raw_audio_storage_add_sample(st, w, hit, clobber) ==
    IF ~ st.s_is_recording \/ st.s_current_fd < 0 THEN st
    ELSE
    LET at     == st.s_buffer_index
        after  == IF at >= RAW_AUDIO_BUFFER_SIZE /\ hit THEN clobber ELSE at
        index  == after + 1
        stored == [st EXCEPT !.storedAt = at, !.adds = @ + 1,
                             !.s_buffer_index = index]
        len    == index * RecSampleSize
        r      == WriteResult(w, len)
    IN  IF index < RAW_AUDIO_BUFFER_SIZE THEN stored
        ELSE IF r # len THEN [stored EXCEPT !.size = @ + Landed(r)]
        ELSE [stored EXCEPT !.size = @ + r,
                            !.s_samples_written = @ + index,
                            !.s_file_size_bytes = @ + r,
                            !.s_buffer_index = 0]

(* -------------------------------- state -------------------------------- *)

VARIABLES
    \* globals of main.c
    s_is_recording, s_recording_count, s_current_raw_file,
    s_file_transfer_conn_handle, s_file_transfer_active, s_file_transfer_paused,
    s_file_transfer_size, s_file_transfer_offset, s_bytes_sent, s_seq,
    s_file_transfer_fp, s_cccd_mask, s_ft_q, s_notify_sem,
    \* file_xfer_task: position and locals; n, eof, tries and the packet
    \* just built live for one pass of the send loop and are cleared after it
    pc, path, fpos, n, eof, pkt, tries,
    \* button_callback: position
    bpc,
    \* environment: negotiated ATT MTU, card mounted, recordings directory,
    \* accepted data notifications whose NOTIFY_TX event is still to come,
    \* whether the FILE the worker opened last is still open
    att_mtu, sdAvail, dir, inflight, fpOpen,
    \* observation: packets the transport accepted in the current session,
    \* status codes handed to the transport by the last step, STOP commands
    \* accepted during the running session and chunks accepted since
    rx, emitted, stopSeen, sinceStop,
    \* observation: 0 when no Paused status is pending, else 1 + the chunks the
    \* transport accepted since the last Paused status (at most 3); a Resume
    \* that takes effect and the worker accepting a START set it back to 0
    sincePause,
    \* observation: the command the last step handled (<<>> when the step was
    \* no command) and whether the last step called into the filesystem
    lastCmd, fsTouched,
    \* counted events of the run so far
    events,
    \* raw_audio_storage.c: its statics, the file it writes and what the last
    \* call did (see RecorderInit)
    ras

globals == << s_is_recording, s_recording_count, s_current_raw_file,
              s_file_transfer_conn_handle, s_file_transfer_active,
              s_file_transfer_paused, s_file_transfer_size, s_file_transfer_offset,
              s_bytes_sent, s_seq, s_file_transfer_fp, s_cccd_mask, s_ft_q,
              s_notify_sem >>
locals_but_pc == << path, fpos, n, eof, pkt, tries >>
locals  == << pc, locals_but_pc >>
envvars == << att_mtu, sdAvail, dir, inflight, fpOpen >>
obs     == << rx, emitted, stopSeen, sinceStop, sincePause, lastCmd, fsTouched >>
budgets == << events >>
vars    == << globals, locals, bpc, envvars, obs, budgets, ras >>

\* the session fields the worker owns
session == << s_file_transfer_active, s_file_transfer_paused, s_file_transfer_size,
              s_file_transfer_offset, s_bytes_sent, s_seq, s_file_transfer_fp >>

Init ==
    /\ s_is_recording = FALSE
    /\ s_recording_count = 0
    /\ s_current_raw_file = <<>>
    /\ s_file_transfer_conn_handle = 0
    /\ s_file_transfer_active = FALSE
    /\ s_file_transfer_paused = FALSE
    /\ s_file_transfer_size = 0
    /\ s_file_transfer_offset = 0
    /\ s_bytes_sent = 0
    /\ s_seq = 0
    /\ s_file_transfer_fp = "NULL"
    /\ s_cccd_mask = 0
    /\ s_ft_q = <<>>
    /\ s_notify_sem = kMaxInFlight
    /\ pc = "wait"
    /\ path = <<>>
    /\ fpos = 0
    /\ n = 0
    /\ eof = FALSE
    /\ pkt = <<>>
    /\ tries = 0
    /\ bpc = "idle"
    /\ att_mtu = 0
    /\ sdAvail = TRUE
    /\ dir \in BootDirs
    /\ inflight = 0
    /\ fpOpen = FALSE
    /\ rx = <<>>
    /\ emitted = <<>>
    /\ stopSeen = FALSE
    /\ sinceStop = 0
    /\ sincePause = 0
    /\ ras = RecorderInit
    /\ lastCmd = <<>>
    /\ fsTouched = FALSE
    /\ events = 0

(* ------------------------- status and semaphore ------------------------ *)

\* send_status: nothing leaves without a connection handle
send_status(code) == IF s_file_transfer_conn_handle = 0 THEN <<>> ELSE <<code>>

notifies_ready == s_cccd_mask % 4 = 3

handles_valid == s_file_transfer_conn_handle # 0

\* xSemaphoreGive on the counting semaphore created with maximum kMaxInFlight
SemGive(c) == IF c < kMaxInFlight THEN c + 1 ELSE c

\* BLE_GAP_EVENT_NOTIFY_TX on the data handle
NotifyTxCredit(status, c) == IF status = 0 THEN SemGive(c) ELSE c

\* a give-back that also runs when the submission succeeded
ReturnCreditAlways(failed, c) == SemGive(c)

\* "Return the credit we took", on the two failure exits of the retry loop
ReturnCredit(failed, c) == IF failed THEN SemGive(c) ELSE c

\* an ft_msg_t.  Only type exists in the program; want is observation: the
\* path the handler resolved for the command, <<>> for the plain START
Msg(type, want) == [type |-> type, want |-> want]

\* xQueueSend(s_ft_q, &m, 0): dropped when the queue is full
Enqueue(q, m) == IF Len(q) < QueueLength THEN Append(q, m) ELSE q

(* ----------------------- control-surface handlers ---------------------- *)

Alnum == { "a", "b", "e", "l", "r", "w", "x", "y", "z", "A", "R", "W",
           "0", "1", "2", "3", "4", "5", "6", "7", "8", "9" }

\* a validator without the strstr(filename, "..") test
is_valid_filename_NoDotDot(nm) ==
    /\ Len(nm) >= 1
    /\ Len(nm) <= 255
    /\ \A i \in 1..Len(nm) : nm[i] \in Alnum \cup { ".", "_", "-" }
    /\ ~ Contains(nm, <<"/">>)
    /\ ~ Contains(nm, <<"\\">>)

\* a validator whose allow-list lacks the hyphen
is_valid_filename_NoHyphen(nm) ==
    /\ Len(nm) >= 1
    /\ Len(nm) <= 255
    /\ \A i \in 1..Len(nm) : nm[i] \in Alnum \cup { ".", "_" }
    /\ ~ Contains(nm, <<".", ".">>)
    /\ ~ Contains(nm, <<"/">>)
    /\ ~ Contains(nm, <<"\\">>)

is_valid_filename(nm) ==
    /\ Len(nm) >= 1
    /\ Len(nm) <= 255
    /\ \A i \in 1..Len(nm) : nm[i] \in Alnum \cup { ".", "_", "-" }
    /\ ~ Contains(nm, <<".", ".">>)
    /\ ~ Contains(nm, <<"/">>)
    /\ ~ Contains(nm, <<"\\">>)

\* strncpy into s_current_raw_file[128]
Truncate(p) == IF Len(p) > PathBufSize - 1 THEN SubSeq(p, 1, PathBufSize - 1) ELSE p

\* start checks that leave out the test of the active flag
PreStatusNoActiveCheck ==
    IF s_is_recording THEN STAT_BUSY
    ELSE IF ~ notifies_ready THEN STAT_SUBSCRIPTION_REQUIRED
    ELSE IF ~ sdAvail THEN STAT_FILE_OPEN_FAIL
    ELSE 0

\* the four checks with the subscription test before the recording test
PreStatusSubscriptionFirst ==
    IF s_file_transfer_active THEN STAT_ALREADY_RUNNING
    ELSE IF ~ notifies_ready THEN STAT_SUBSCRIPTION_REQUIRED
    ELSE IF s_is_recording THEN STAT_BUSY
    ELSE IF ~ sdAvail THEN STAT_FILE_OPEN_FAIL
    ELSE 0

\* the four checks every start handler makes first; 0 when all pass
PreStatus ==
    IF s_file_transfer_active THEN STAT_ALREADY_RUNNING
    ELSE IF s_is_recording THEN STAT_BUSY
    ELSE IF ~ notifies_ready THEN STAT_SUBSCRIPTION_REQUIRED
    ELSE IF ~ sdAvail THEN STAT_FILE_OPEN_FAIL
    ELSE 0

Counted ==
    /\ events < MaxEvents
    /\ events' = events + 1

Quiet == UNCHANGED events

\* a command is a GATT write: it needs a connection
Written ==
    /\ s_file_transfer_conn_handle # 0
    /\ Counted

HandlerFrame ==
    UNCHANGED << s_is_recording, s_recording_count, s_file_transfer_conn_handle,
                 s_file_transfer_active, s_file_transfer_size, s_file_transfer_offset,
                 s_bytes_sent, s_seq, s_file_transfer_fp, s_cccd_mask, s_notify_sem,
                 locals, bpc, envvars, rx, sinceStop >>

\* file_transfer_start
CmdStart ==
    /\ lastCmd' = << "START" >>
    /\ UNCHANGED ras
    /\ fsTouched' = FALSE
    /\ Written
    /\ HandlerFrame
    /\ UNCHANGED sincePause
    /\ UNCHANGED << s_current_raw_file, s_file_transfer_paused, stopSeen >>
    /\ IF PreStatus # 0
       THEN /\ emitted' = send_status(PreStatus)
            /\ UNCHANGED s_ft_q
       ELSE /\ emitted' = <<>>
            /\ s_ft_q' = Enqueue(s_ft_q, Msg("START", <<>>))

\* the full path file_transfer_start_with_filename builds
ResolveName(nm) ==
    IF Contains(nm, RawExt) THEN PathOf(nm) ELSE PathOf(nm \o RawExt)

\* the status of a named start after the four common checks; 0 when accepted
NamedStatus(nm) ==
    IF ~ Exists(dir, ResolveName(nm)) THEN STAT_NO_FILE
    ELSE IF ~ EntryAt(dir, ResolveName(nm)).reg THEN STAT_FILE_OPEN_FAIL
    ELSE IF EntryAt(dir, ResolveName(nm)).size = 0 THEN STAT_NO_FILE
    ELSE 0

\* the requested_filename buffer read as a C string: the bytes before the
\* first zero byte ("NUL" stands for it)
CStr(bytes) ==
    IF \E i \in 1..Len(bytes) : bytes[i] = "NUL"
    THEN SubSeq(bytes, 1, (CHOOSE i \in 1..Len(bytes) :
                              bytes[i] = "NUL" /\ \A j \in 1..(i - 1) : bytes[j] # "NUL") - 1)
    ELSE bytes

\* a name of SD_MAX_PATH bytes that starts with a slash
LongName == [i \in 1..SD_MAX_PATH |-> IF i = 1 THEN "/" ELSE "a"]

\* names the peer may send with START_WITH_FILENAME
PeerNames == { <<"a">>, NameB, <<"z">>, <<".", ".", "a">>, <<"a", "/", "b">>,
               <<"a", "\\", "b">>, <<"b", "NUL", "/">>, LongName }

\* FILE_TRANSFER_CMD_START_WITH_FILENAME in gatt_svr_chr_access, then
\* file_transfer_start_with_filename
CmdStartWithFilename(nm) ==
    /\ Written
    /\ HandlerFrame
    /\ UNCHANGED sincePause
    /\ UNCHANGED << s_file_transfer_paused, stopSeen >>
    /\ lastCmd' = << "START_WITH_FILENAME", nm >>
    /\ UNCHANGED ras
    /\ IF Len(nm) < 1 \/ Len(nm) >= SD_MAX_PATH
       THEN \* BLE_ATT_ERR_INVALID_ATTR_VALUE_LEN: the write is refused
            /\ emitted' = <<>>
            /\ fsTouched' = FALSE
            /\ UNCHANGED << s_ft_q, s_current_raw_file >>
       ELSE LET name == CStr(nm)
                st == IF ~ is_valid_filename(name) THEN STAT_BAD_CMD
                      ELSE IF PreStatus # 0 THEN PreStatus
                      ELSE NamedStatus(name)
            IN  /\ fsTouched' = (is_valid_filename(name) /\ PreStatus = 0)
                /\ IF st # 0
                   THEN /\ emitted' = send_status(st)
                        /\ UNCHANGED << s_ft_q, s_current_raw_file >>
                   ELSE /\ emitted' = <<>>
                        /\ s_current_raw_file' = Truncate(ResolveName(name))
                        /\ s_ft_q' = Enqueue(s_ft_q, Msg("START", ResolveName(name)))

\* a selection that does not treat the empty candidate list apart
SelectStatusNoEmptyCheck(file_index, count, opened) ==
    IF PreStatus # 0 THEN PreStatus
    ELSE IF ~ opened THEN STAT_FILE_OPEN_FAIL
    ELSE IF file_index >= count THEN STAT_INVALID_INDEX
    ELSE 0

\* the checks of file_transfer_select_file on count candidates, in the order
\* of the code; 0 when the index is accepted
SelectStatus(file_index, count, opened) ==
    IF PreStatus # 0 THEN PreStatus
    ELSE IF ~ opened THEN STAT_FILE_OPEN_FAIL
    ELSE IF count = 0 THEN STAT_NO_FILE
    ELSE IF file_index >= count THEN STAT_INVALID_INDEX
    ELSE 0

\* file_transfer_select_file; opened = FALSE is opendir or calloc failing
CmdSelectFile(file_index, opened) ==
    /\ lastCmd' = << "SELECT_FILE", file_index >>
    /\ UNCHANGED ras
    /\ fsTouched' = (PreStatus = 0)
    /\ Written
    /\ HandlerFrame
    /\ UNCHANGED sincePause
    /\ UNCHANGED << s_file_transfer_paused, stopSeen >>
    /\ LET cands == SortedCandidates(dir)
           st == SelectStatus(file_index, Len(cands), opened)
       IN  IF st # 0
           THEN /\ emitted' = send_status(st)
                /\ UNCHANGED << s_ft_q, s_current_raw_file >>
           ELSE /\ emitted' = send_status(STAT_FILE_SELECTED)
                /\ s_current_raw_file' = Truncate(PathOf(cands[file_index + 1].name))
                /\ s_ft_q' = Enqueue(s_ft_q, Msg("START", PathOf(cands[file_index + 1].name)))

\* file_transfer_list_files
CmdListFiles ==
    /\ lastCmd' = << "LIST_FILES" >>
    /\ UNCHANGED ras
    /\ fsTouched' = FALSE
    /\ Written
    /\ HandlerFrame
    /\ UNCHANGED sincePause
    /\ UNCHANGED << s_current_raw_file, s_file_transfer_paused, s_ft_q, stopSeen >>
    /\ emitted' = send_status(STAT_LIST_READY)

\* file_transfer_pause
CmdPause ==
    /\ lastCmd' = << "PAUSE" >>
    /\ UNCHANGED ras
    /\ fsTouched' = FALSE
    /\ Written
    /\ HandlerFrame
    /\ UNCHANGED << s_current_raw_file, s_ft_q, stopSeen >>
    /\ IF ~ s_file_transfer_active
       THEN /\ emitted' = <<>>
            /\ UNCHANGED << s_file_transfer_paused, sincePause >>
       ELSE /\ s_file_transfer_paused' = TRUE
            /\ emitted' = send_status(STAT_PAUSED)
            /\ sincePause' = IF send_status(STAT_PAUSED) = <<>> THEN sincePause ELSE 1

\* file_transfer_resume
CmdResume ==
    /\ lastCmd' = << "RESUME" >>
    /\ UNCHANGED ras
    /\ fsTouched' = FALSE
    /\ Written
    /\ HandlerFrame
    /\ UNCHANGED << s_current_raw_file, s_ft_q, stopSeen >>
    /\ emitted' = <<>>
    /\ IF ~ s_file_transfer_active
       THEN UNCHANGED << s_file_transfer_paused, sincePause >>
       ELSE s_file_transfer_paused' = FALSE /\ sincePause' = 0

\* file_transfer_stop
CmdStop ==
    /\ lastCmd' = << "STOP" >>
    /\ UNCHANGED ras
    /\ fsTouched' = FALSE
    /\ Written
    /\ HandlerFrame
    /\ UNCHANGED sincePause
    /\ UNCHANGED << s_current_raw_file, s_file_transfer_paused >>
    /\ emitted' = <<>>
    /\ s_ft_q' = Enqueue(s_ft_q, Msg("STOP", <<>>))
    /\ stopSeen' = (stopSeen \/ (/\ s_file_transfer_active
                                  /\ ~ s_file_transfer_paused
                                  /\ pc \in { "loop", "credit", "send" }
                                  /\ Len(s_ft_q) < QueueLength))

\* an unknown command byte in gatt_svr_chr_access
CmdUnknown ==
    /\ lastCmd' = << "UNKNOWN" >>
    /\ UNCHANGED ras
    /\ fsTouched' = FALSE
    /\ Written
    /\ HandlerFrame
    /\ UNCHANGED sincePause
    /\ UNCHANGED << s_current_raw_file, s_file_transfer_paused, s_ft_q, stopSeen >>
    /\ emitted' = send_status(STAT_BAD_CMD)

(* --------------------------- transfer worker --------------------------- *)

WorkerFrame ==
    UNCHANGED << s_is_recording, s_recording_count, s_current_raw_file,
                 s_file_transfer_conn_handle, s_cccd_mask, bpc, att_mtu, sdAvail,
                 dir >>

\* "choose file" of file_xfer_task; <<>> when find_latest_raw fails
ChosenPath ==
    IF s_current_raw_file # <<>> THEN s_current_raw_file
    ELSE IF sdAvail THEN find_latest_raw(dir) ELSE <<>>

\* fopen(path, "rb") can succeed
CanOpen(p) == sdAvail /\ Exists(dir, p) /\ EntryAt(dir, p).reg

\* the worker's checks without the test of the active flag
WorkerAcceptsWhileActive ==
    /\ handles_valid
    /\ ChosenPath # <<>>
    /\ CanOpen(ChosenPath)

\* the checks of the worker between xQueueReceive and a successful fopen
WorkerAccepts ==
    /\ ~ s_file_transfer_active
    /\ handles_valid
    /\ ChosenPath # <<>>
    /\ CanOpen(ChosenPath)

\* xQueueReceive of FT_CMD_START, up to "s_file_transfer_active = true";
\* io is the outcome of fopen and of fseek/ftell
WorkerStart(io) ==
    /\ lastCmd' = <<>>
    /\ UNCHANGED ras
    /\ fsTouched' = (~ s_file_transfer_active /\ handles_valid)
    /\ pc = "wait"
    /\ s_ft_q # <<>>
    /\ Head(s_ft_q).type = "START"
    /\ s_ft_q' = Tail(s_ft_q)
    /\ WorkerFrame
    /\ UNCHANGED << s_file_transfer_paused, s_file_transfer_fp, s_notify_sem,
                    n, eof, pkt, tries, inflight >>
    /\ LET accepted == WorkerAccepts
       IN  IF accepted /\ io = "ok"
           THEN /\ path' = ChosenPath
                /\ s_file_transfer_size' = EntryAt(dir, ChosenPath).size
                /\ s_file_transfer_offset' = 0
                /\ s_bytes_sent' = 0
                /\ s_seq' = 0
                /\ s_file_transfer_active' = TRUE
                /\ fpOpen' = TRUE
                /\ fpos' = 0
                /\ rx' = <<>>
                /\ stopSeen' = FALSE
                /\ sinceStop' = 0
                /\ sincePause' = 0
                /\ emitted' = <<>>
                /\ pc' = "init"
                /\ Quiet
           ELSE /\ UNCHANGED << s_file_transfer_size, s_file_transfer_offset,
                                s_bytes_sent, s_seq, s_file_transfer_active,
                                fpOpen, fpos, rx, stopSeen, sinceStop, sincePause, pc >>
                /\ IF accepted
                   THEN /\ io \in { "open_fail", "seek_fail" }
                        /\ Counted
                        /\ path' = ChosenPath
                        /\ emitted' = send_status(IF io = "open_fail"
                                                  THEN STAT_FILE_OPEN_FAIL
                                                  ELSE STAT_FILE_READ_FAIL)
                   ELSE /\ io = "ok"
                        /\ Quiet
                        /\ path' = IF s_file_transfer_active \/ ~ handles_valid
                                   THEN path ELSE ChosenPath
                        /\ emitted' = send_status(
                              IF s_file_transfer_active THEN STAT_BUSY
                              ELSE IF ~ handles_valid THEN STAT_NO_CONN
                              ELSE IF ChosenPath = <<>> THEN STAT_NO_FILE
                              ELSE STAT_FILE_OPEN_FAIL)

\* from "s_file_transfer_paused = false" to send_status(STAT_STARTED)
WorkerInit ==
    /\ lastCmd' = <<>>
    /\ UNCHANGED ras
    /\ fsTouched' = (s_file_transfer_size = 0)
    /\ pc = "init"
    /\ WorkerFrame
    /\ UNCHANGED << s_file_transfer_active, s_file_transfer_size,
                    s_file_transfer_offset, s_bytes_sent, s_seq, s_ft_q,
                    s_notify_sem, path, fpos, n, eof, pkt, tries, inflight, rx,
                    stopSeen, sinceStop, sincePause, events >>
    /\ s_file_transfer_paused' = FALSE
    /\ s_file_transfer_fp' = "fp"
    /\ IF s_file_transfer_size = 0
       THEN /\ fpOpen' = FALSE
            /\ emitted' = send_status(STAT_NO_FILE)
            /\ pc' = "wait"
       ELSE /\ UNCHANGED fpOpen
            /\ emitted' = send_status(STAT_STARTED)
            /\ pc' = "loop"

\* xQueueReceive of FT_CMD_STOP
WorkerStop ==
    /\ lastCmd' = <<>>
    /\ UNCHANGED ras
    /\ fsTouched' = (s_file_transfer_fp # "NULL")
    /\ pc = "wait"
    /\ s_ft_q # <<>>
    /\ Head(s_ft_q).type = "STOP"
    /\ s_ft_q' = Tail(s_ft_q)
    /\ WorkerFrame
    /\ UNCHANGED << s_file_transfer_size, s_file_transfer_offset, s_bytes_sent,
                    s_seq, s_notify_sem, locals, inflight, rx, events >>
    /\ s_file_transfer_active' = FALSE
    /\ s_file_transfer_paused' = FALSE
    /\ s_file_transfer_fp' = "NULL"
    /\ fpOpen' = IF s_file_transfer_fp # "NULL" THEN FALSE ELSE fpOpen
    /\ emitted' = send_status(STAT_STOPPED_BY_HOST)
    /\ stopSeen' = FALSE
    /\ sinceStop' = 0
    /\ UNCHANGED sincePause

\* one pass of the send loop from its condition to the built packet;
\* readOk = FALSE is fread failing without end of file
WorkerLoop(readOk) ==
    /\ lastCmd' = <<>>
    /\ UNCHANGED ras
    /\ fsTouched' = (/\ s_file_transfer_active /\ ~ s_file_transfer_paused
                     /\ s_file_transfer_conn_handle # 0
                     /\ s_file_transfer_size # s_file_transfer_offset)
    /\ pc = "loop"
    /\ WorkerFrame
    /\ UNCHANGED << session, s_ft_q, s_notify_sem, path, tries, inflight, fpOpen,
                    rx, stopSeen, sinceStop, sincePause >>
    /\ LET running == s_file_transfer_active /\ ~ s_file_transfer_paused
           remain  == s_file_transfer_size - s_file_transfer_offset
           budget  == payload_budget(att_mtu)
           to_read == Min(remain, budget)
           disk    == Content(EntryAt(dir, path))
           got     == Min(to_read, Len(disk) - fpos)
           reads   == running /\ s_file_transfer_conn_handle # 0 /\ remain # 0
       IN  IF ~ reads
           THEN /\ readOk
                /\ emitted' = IF running /\ s_file_transfer_conn_handle = 0
                              THEN send_status(STAT_NO_CONN) ELSE <<>>
                /\ pc' = "end"
                /\ UNCHANGED << fpos, n, eof, pkt, events >>
           ELSE IF ~ readOk
           THEN /\ Counted
                /\ n' = 0
                /\ emitted' = send_status(STAT_FILE_READ_FAIL)
                /\ pc' = "end"
                /\ UNCHANGED << fpos, eof, pkt >>
           ELSE IF got = 0
           THEN /\ n' = 0
                /\ emitted' = <<>>
                /\ pc' = "end"
                /\ UNCHANGED << fpos, eof, pkt, events >>
           ELSE /\ n' = got
                /\ fpos' = fpos + got
                /\ eof' = (s_file_transfer_offset + got >= s_file_transfer_size)
                /\ pkt' = BuildPacket(s_seq, SubSeq(disk, fpos + 1, fpos + got),
                                      s_file_transfer_offset + got >= s_file_transfer_size)
                /\ emitted' = <<>>
                /\ pc' = "credit"
                /\ Quiet

\* xSemaphoreTake(s_notify_sem, 200 ms) succeeds
WorkerCredit ==
    /\ lastCmd' = <<>>
    /\ UNCHANGED ras
    /\ fsTouched' = FALSE
    /\ pc = "credit"
    /\ s_notify_sem > 0
    /\ s_notify_sem' = s_notify_sem - 1
    /\ tries' = 0
    /\ pc' = "send"
    /\ emitted' = <<>>
    /\ WorkerFrame
    /\ UNCHANGED << session, s_ft_q, path, fpos, n, eof, pkt, inflight, fpOpen,
                    rx, stopSeen, sinceStop, sincePause, events >>

\* xSemaphoreTake times out: vTaskDelay, continue
WorkerCreditTimeout ==
    /\ lastCmd' = <<>>
    /\ UNCHANGED ras
    /\ fsTouched' = FALSE
    /\ pc = "credit"
    /\ s_notify_sem = 0
    /\ pc' = "loop"
    /\ emitted' = <<>>
    /\ WorkerFrame
    /\ n' = 0
    /\ eof' = FALSE
    /\ pkt' = <<>>
    /\ UNCHANGED << session, s_ft_q, s_notify_sem, path, fpos, tries,
                    inflight, fpOpen, rx, stopSeen, sinceStop, sincePause, events >>

\* a retry loop that allows one attempt more
RetryAllowedOneMore(rc, t) == rc \in { "nomem", "transient" } /\ t + 1 <= FT_MAX_RETRIES

\* "++tries < FT_MAX_RETRIES" on the two transient failures: go round again
RetryAllowed(rc, t) == rc \in { "nomem", "transient" } /\ t + 1 < FT_MAX_RETRIES

\* one pass of the retry loop and, when the loop is left, the code after it.
\* rc: "ok" (notify returned 0), "nomem" (no mbuf), "transient" (ECONTROLLER,
\* ENOMEM, EBUSY) or "fatal" (any other code).  The stack reports an attempt
\* that failed through NOTIFY_TX with that code, before notify returns.
\* The uint32_t counters cannot wrap: every file is far shorter than 2^32.
WorkerSend(rc) ==
    /\ lastCmd' = <<>>
    /\ UNCHANGED ras
    /\ fsTouched' = FALSE
    /\ pc = "send"
    /\ rc = "ok" => s_file_transfer_conn_handle # 0
    /\ WorkerFrame
    /\ UNCHANGED << s_file_transfer_paused, s_file_transfer_size,
                    s_file_transfer_fp, s_ft_q, path, fpos, fpOpen, stopSeen >>
    /\ LET retry  == RetryAllowed(rc, tries)
           failed == rc # "ok" /\ ~ retry
           tries1 == IF rc \in { "nomem", "transient" } THEN tries + 1 ELSE tries
           sem1   == IF rc \in { "transient", "fatal" }
                     THEN NotifyTxCredit(1, s_notify_sem) ELSE s_notify_sem
       IN  /\ IF retry
              THEN tries' = tries1 /\ UNCHANGED << n, eof, pkt >>
              ELSE tries' = 0 /\ n' = 0 /\ eof' = FALSE /\ pkt' = <<>>
           /\ s_notify_sem' = ReturnCredit(failed, sem1)
           /\ emitted' = IF failed THEN send_status(STAT_NOTIFY_FAIL) ELSE <<>>
           /\ inflight' = IF rc = "ok" THEN inflight + 1 ELSE inflight
           /\ rx' = IF rc = "ok" THEN Append(rx, pkt) ELSE rx
           /\ sinceStop' = IF rc = "ok" /\ stopSeen
                           THEN Min(sinceStop + 1, 2) ELSE sinceStop
           /\ sincePause' = IF rc = "ok" /\ sincePause > 0
                            THEN Min(sincePause + 1, 3) ELSE sincePause
           /\ IF rc = "fatal"
              THEN Counted
              ELSE Quiet
           /\ IF retry
              THEN UNCHANGED << s_file_transfer_active, s_file_transfer_offset,
                                s_bytes_sent, s_seq, pc >>
              ELSE IF tries1 >= FT_MAX_RETRIES
              THEN /\ s_file_transfer_active' = FALSE
                   /\ pc' = "end"
                   /\ UNCHANGED << s_file_transfer_offset, s_bytes_sent, s_seq >>
              ELSE /\ s_file_transfer_offset' = s_file_transfer_offset + n
                   /\ s_bytes_sent' = s_bytes_sent + n
                   /\ s_seq' = (s_seq + 1) % 65536
                   /\ pc' = IF eof THEN "end" ELSE "loop"
                   /\ UNCHANGED s_file_transfer_active

\* after the send loop: fclose, clear, report
WorkerEnd ==
    /\ lastCmd' = <<>>
    /\ UNCHANGED ras
    /\ fsTouched' = TRUE
    /\ pc = "end"
    /\ WorkerFrame
    /\ UNCHANGED << s_file_transfer_paused, s_file_transfer_size,
                    s_file_transfer_offset, s_bytes_sent, s_seq, s_ft_q,
                    s_notify_sem, locals_but_pc, inflight, rx, events >>
    /\ fpOpen' = FALSE
    /\ s_file_transfer_fp' = "NULL"
    /\ s_file_transfer_active' = FALSE
    /\ emitted' = IF s_file_transfer_offset = s_file_transfer_size
                  THEN send_status(STAT_COMPLETE)
                  ELSE IF ~ s_file_transfer_paused
                  THEN send_status(STAT_STOPPED_BY_HOST) ELSE <<>>
    /\ stopSeen' = FALSE
    /\ sinceStop' = 0
    /\ UNCHANGED sincePause
    /\ pc' = "wait"

(* ------------------------- GAP event callbacks ------------------------- *)

Disturbance == Counted

\* ble_app_on_connect with status 0; the stack starts at the default MTU
Connect ==
    /\ lastCmd' = <<>>
    /\ UNCHANGED ras
    /\ fsTouched' = FALSE
    /\ s_file_transfer_conn_handle = 0
    /\ s_file_transfer_conn_handle' = 1
    /\ att_mtu' = DefaultMtu
    /\ emitted' = <<>>
    /\ Quiet
    /\ UNCHANGED << s_is_recording, s_recording_count, s_current_raw_file, session,
                    s_cccd_mask, s_ft_q, s_notify_sem, locals, bpc, sdAvail, dir,
                    inflight, fpOpen, rx, stopSeen, sinceStop, sincePause >>

\* ble_app_on_disconnect
Disconnect ==
    /\ lastCmd' = <<>>
    /\ UNCHANGED ras
    /\ fsTouched' = (s_file_transfer_fp # "NULL")
    /\ s_file_transfer_conn_handle # 0
    /\ Disturbance
    /\ s_file_transfer_conn_handle' = 0
    /\ s_file_transfer_active' = FALSE
    /\ s_file_transfer_fp' = "NULL"
    /\ fpOpen' = IF s_file_transfer_fp # "NULL" THEN FALSE ELSE fpOpen
    /\ s_bytes_sent' = 0
    /\ s_seq' = 0
    /\ s_file_transfer_offset' = 0
    /\ s_cccd_mask' = 0
    /\ att_mtu' = 0
    /\ emitted' = <<>>
    /\ UNCHANGED << s_is_recording, s_recording_count, s_current_raw_file,
                    s_file_transfer_paused, s_file_transfer_size, s_ft_q,
                    s_notify_sem, locals, bpc, sdAvail, dir, inflight, rx,
                    stopSeen, sinceStop, sincePause >>

HasBit(mask, bit) == (mask \div bit) % 2 = 1
SetBit(mask, bit) == IF HasBit(mask, bit) THEN mask ELSE mask + bit
ClearBit(mask, bit) == IF HasBit(mask, bit) THEN mask - bit ELSE mask

\* BLE_GAP_EVENT_SUBSCRIBE for the data (bit 1) or status (bit 2) characteristic
Subscribe(bit, on) ==
    /\ lastCmd' = <<>>
    /\ UNCHANGED ras
    /\ fsTouched' = FALSE
    /\ s_file_transfer_conn_handle # 0
    /\ HasBit(s_cccd_mask, bit) # on
    /\ IF on THEN Quiet ELSE Disturbance
    /\ s_cccd_mask' = IF on THEN SetBit(s_cccd_mask, bit) ELSE ClearBit(s_cccd_mask, bit)
    /\ emitted' = <<>>
    /\ UNCHANGED << s_is_recording, s_recording_count, s_current_raw_file,
                    s_file_transfer_conn_handle, session, s_ft_q, s_notify_sem,
                    locals, bpc, envvars, rx, stopSeen, sinceStop, sincePause >>

\* BLE_GAP_EVENT_MTU: the exchange happens once on a connection
MtuExchange ==
    /\ lastCmd' = <<>>
    /\ UNCHANGED ras
    /\ fsTouched' = FALSE
    /\ s_file_transfer_conn_handle # 0
    /\ att_mtu = DefaultMtu
    /\ Disturbance
    /\ att_mtu' = BigMtu
    /\ emitted' = <<>>
    /\ UNCHANGED << globals, locals, bpc, sdAvail, dir, inflight, fpOpen, rx,
                    stopSeen, sinceStop, sincePause >>

\* BLE_GAP_EVENT_NOTIFY_TX for a data notification the stack accepted earlier
NotifyTx(status) ==
    /\ lastCmd' = <<>>
    /\ UNCHANGED ras
    /\ fsTouched' = FALSE
    /\ inflight > 0
    /\ inflight' = inflight - 1
    /\ IF status = 0 THEN Quiet ELSE Disturbance
    /\ s_notify_sem' = NotifyTxCredit(status, s_notify_sem)
    /\ emitted' = <<>>
    /\ UNCHANGED << s_is_recording, s_recording_count, s_current_raw_file,
                    s_file_transfer_conn_handle, session, s_cccd_mask, s_ft_q,
                    locals, bpc, att_mtu, sdAvail, dir, fpOpen, rx, stopSeen,
                    sinceStop, sincePause >>

\* the card is removed or mounted again (sd_storage_is_available changes)
SdChange ==
    /\ lastCmd' = <<>>
    /\ UNCHANGED ras
    /\ fsTouched' = FALSE
    /\ Disturbance
    /\ sdAvail' = ~ sdAvail
    /\ emitted' = <<>>
    /\ UNCHANGED << globals, locals, bpc, att_mtu, dir, inflight, fpOpen, rx,
                    stopSeen, sinceStop, sincePause >>

(* ---------------------------- record button ---------------------------- *)

DigitChar == << "0", "1", "2", "3", "4", "5", "6", "7", "8", "9" >>
\* "%03d"
Digits3(k) == << DigitChar[((k \div 100) % 10) + 1], DigitChar[((k \div 10) % 10) + 1],
                 DigitChar[(k % 10) + 1] >>
BleRecName(k) == << "b", "l", "e", "_", "r" >> \o Digits3(k) \o RawExt
RecName(k) == << "r" >> \o Digits3(k) \o RawExt

ButtonFrame ==
    UNCHANGED << s_file_transfer_conn_handle, session, s_cccd_mask, s_ft_q,
                 s_notify_sem, locals, att_mtu, sdAvail, inflight, fpOpen, rx,
                 stopSeen, sinceStop, sincePause >>

\* button_callback(pressed) with the card available and audio capture enabled,
\* up to the call of raw_audio_storage_start_recording
ButtonPress ==
    /\ lastCmd' = <<>>
    /\ UNCHANGED ras
    /\ fsTouched' = (~ s_file_transfer_active /\ s_is_recording)
    /\ bpc = "idle"
    /\ sdAvail
    /\ Disturbance
    /\ ButtonFrame
    /\ emitted' = <<>>
    /\ UNCHANGED dir
    /\ IF s_file_transfer_active
       THEN UNCHANGED << s_is_recording, s_recording_count, s_current_raw_file, bpc >>
       ELSE IF ~ s_is_recording
       THEN /\ s_recording_count' = s_recording_count + 2
            /\ s_current_raw_file' = Truncate(PathOf(BleRecName(s_recording_count + 2)))
            /\ bpc' = "starting"
            /\ UNCHANGED s_is_recording
       ELSE /\ s_recording_count' = s_recording_count + 1
            /\ s_is_recording' = FALSE
            /\ UNCHANGED << s_current_raw_file, bpc >>

\* the rest of button_callback: the recording starts ("ok"), or the first
\* attempt fails leaving an empty file and the second block tries the name
\* r%03d, which starts ("fail_ok") or fails as well ("fail_fail")
ButtonStartDone(outcome) ==
    /\ lastCmd' = <<>>
    /\ UNCHANGED ras
    /\ fsTouched' = TRUE
    /\ bpc = "starting"
    /\ bpc' = "idle"
    /\ Quiet
    /\ ButtonFrame
    /\ emitted' = <<>>
    /\ UNCHANGED s_recording_count
    /\ LET first  == BleRecName(s_recording_count)
           second == RecName(s_recording_count)
       IN  CASE outcome = "ok" ->
                  /\ dir' = PutFile(dir, first, RecHeaderSize)
                  /\ s_is_recording' = TRUE
                  /\ UNCHANGED s_current_raw_file
              [] outcome = "fail_ok" ->
                  /\ dir' = PutFile(PutFile(dir, first, 0), second, RecHeaderSize)
                  /\ s_is_recording' = TRUE
                  /\ s_current_raw_file' = Truncate(PathOf(second))
              [] outcome = "fail_fail" ->
                  /\ dir' = PutFile(PutFile(dir, first, 0), second, 0)
                  /\ s_is_recording' = FALSE
                  /\ s_current_raw_file' = <<>>

(* ---------------------------- specification ---------------------------- *)

Handlers ==
    \/ CmdStart
    \/ \E i \in 0..2, opened \in BOOLEAN : CmdSelectFile(i, opened)
    \/ \E nm \in PeerNames : CmdStartWithFilename(nm)
    \/ CmdListFiles
    \/ CmdPause
    \/ CmdResume
    \/ CmdStop
    \/ CmdUnknown

Worker ==
    \/ \E io \in { "ok", "open_fail", "seek_fail" } : WorkerStart(io)
    \/ WorkerInit
    \/ WorkerStop
    \/ \E readOk \in BOOLEAN : WorkerLoop(readOk)
    \/ WorkerCredit
    \/ WorkerCreditTimeout
    \/ \E rc \in { "ok", "nomem", "transient", "fatal" } : WorkerSend(rc)
    \/ WorkerEnd

Environment ==
    \/ Connect
    \/ Disconnect
    \/ \E bit \in { 1, 2 }, on \in BOOLEAN : Subscribe(bit, on)
    \/ MtuExchange
    \/ \E status \in { 0, 1 } : NotifyTx(status)
    \/ SdChange
    \/ ButtonPress
    \/ \E outcome \in { "ok", "fail_ok", "fail_fail" } : ButtonStartDone(outcome)

Next == Handlers \/ Worker \/ Environment

Spec == Init /\ [][Next]_vars

(* ------------- a large file over a link at the preferred MTU ------------ *)

\* the length ftell reports for the file of this run
ExampleSize == 10000

\* the recordings directory holds that one file
ExampleDir == << Entry(NameB, TRUE, ExampleSize, 2) >>

\* a peer has connected, agreed on the MTU mtu and subscribed to the data and
\* status characteristics; the card holds the directory d; nothing else has
\* happened since boot
ReadyInit(d, mtu) ==
    /\ s_is_recording = FALSE
    /\ s_recording_count = 0
    /\ s_current_raw_file = <<>>
    /\ s_file_transfer_conn_handle = 1
    /\ s_file_transfer_active = FALSE
    /\ s_file_transfer_paused = FALSE
    /\ s_file_transfer_size = 0
    /\ s_file_transfer_offset = 0
    /\ s_bytes_sent = 0
    /\ s_seq = 0
    /\ s_file_transfer_fp = "NULL"
    /\ s_cccd_mask = 3
    /\ s_ft_q = <<>>
    /\ s_notify_sem = kMaxInFlight
    /\ pc = "wait"
    /\ path = <<>>
    /\ fpos = 0
    /\ n = 0
    /\ eof = FALSE
    /\ pkt = <<>>
    /\ tries = 0
    /\ bpc = "idle"
    /\ att_mtu = mtu
    /\ sdAvail = TRUE
    /\ dir = d
    /\ inflight = 0
    /\ fpOpen = FALSE
    /\ rx = <<>>
    /\ emitted = <<>>
    /\ stopSeen = FALSE
    /\ sinceStop = 0
    /\ sincePause = 0
    /\ ras = RecorderInit
    /\ lastCmd = <<>>
    /\ fsTouched = FALSE
    /\ events = 0

ExampleInit == ReadyInit(ExampleDir, PreferredMtu)

\* the peer writes START; card, link and transport work without a fault
ExampleNext ==
    \/ CmdStart
    \/ WorkerStart("ok")
    \/ WorkerInit
    \/ WorkerLoop(TRUE)
    \/ WorkerCredit
    \/ WorkerSend("ok")
    \/ WorkerEnd
    \/ NotifyTx(0)

SpecEx == ExampleInit /\ [][ExampleNext]_vars

(* ------------- start commands in a row, newest file empty -------------- *)

\* the recordings directory when the newest recording was created and never
\* written to
EmptyNewestDir == << Entry(NameA, TRUE, SizeA, 1), Entry(NameB, TRUE, 0, 2) >>

\* a copy of a recording kept under a name that goes on after ".raw"
OddName == NameA \o << "x" >>
OddNameDir == BootDir \o << Entry(OddName, TRUE, 1, 3) >>

StartsInit ==
    \E d \in { BootDir, EmptyNewestDir, OddNameDir } : ReadyInit(d, DefaultMtu)

\* the peer writes start commands and STOP; card, link and transport work
\* without a fault
StartsNext ==
    \/ CmdStart
    \/ \E i \in 0..1 : CmdSelectFile(i, TRUE)
    \/ \E nm \in { << "a" >>, NameB, OddName } : CmdStartWithFilename(nm)
    \/ CmdStop
    \/ WorkerStart("ok")
    \/ WorkerInit
    \/ WorkerStop
    \/ WorkerLoop(TRUE)
    \/ WorkerCredit
    \/ WorkerSend("ok")
    \/ WorkerEnd
    \/ NotifyTx(0)

SpecStarts == StartsInit /\ [][StartsNext]_vars

(* ----------------- SELECT_FILE over many directories ------------------- *)

\* modification times run from 1 to MaxMtime
MaxMtime == 3

\* the entries readdir may return in first, second and third place: a .raw
\* file with data, an empty .raw file, or a directory of that name
SortNames == << NameA, NameB, << "x" >> \o RawExt >>
SortEntries(k) ==
    { Entry(SortNames[k], rg, sz, mt) :
        rg \in BOOLEAN, sz \in { 0, 1 }, mt \in 1..MaxMtime }
SortDirs ==
    { <<>> }
    \cup { << e1 >> : e1 \in SortEntries(1) }
    \cup { << e1, e2 >> : e1 \in SortEntries(1), e2 \in SortEntries(2) }
    \cup { << e1, e2, e3 >> :
              e1 \in SortEntries(1), e2 \in SortEntries(2), e3 \in SortEntries(3) }

SortInit == \E d \in SortDirs : ReadyInit(d, DefaultMtu)

\* the peer writes SELECT_FILE; the worker has not run yet
SortNext == \E i \in 0..3 : CmdSelectFile(i, TRUE)

SpecSort == SortInit /\ [][SortNext]_vars

(* ------------- START_WITH_FILENAME over many names --------------------- *)

\* a name of k letters
Letters(k) == [i \in 1..k |-> "a"]

\* names a peer may write: short ones with every kind of character, names
\* with a zero byte, and names at and beyond the size of requested_filename
WrittenNames ==
    { <<>>, << "a" >>, NameB, << "A", "0" >>, << "a", "_", "b" >>, << "a", "-", "b" >>,
      << "a", ".", "b" >>, << "." >>, << ".", "." >>, << "a", ".", ".", "b" >>,
      << "a", " ", "b" >>, << "a", "*" >>, << "a", "/", "b" >>, << "a", "\\", "b" >>,
      << "NUL" >>, << "b", "NUL", "/" >>, << "a", "NUL", ".", "." >>,
      Letters(SD_MAX_PATH - 2), Letters(SD_MAX_PATH - 1), Letters(SD_MAX_PATH),
      LongName }

NamesInit == \E d \in { <<>>, BootDir, OddNameDir } : ReadyInit(d, DefaultMtu)

\* the peer writes START_WITH_FILENAME; the worker has not run yet
NamesNext == \E nm \in WrittenNames : CmdStartWithFilename(nm)

SpecNames == NamesInit /\ [][NamesNext]_vars

(* ---------- commands arriving while the worker streams a file ---------- *)

\* STOP commands the peer has written since the session began
StopsWritten == 7

\* the worker has set up the session for a.raw and stands before the first
\* pass of its send loop; since Started the peer has written STOP
\* StopsWritten times, the last of them just now
BusyInit ==
    /\ s_is_recording = FALSE
    /\ s_recording_count = 0
    /\ s_current_raw_file = PathOf(NameA)
    /\ s_file_transfer_conn_handle = 1
    /\ s_file_transfer_active = TRUE
    /\ s_file_transfer_paused = FALSE
    /\ s_file_transfer_size = SizeA
    /\ s_file_transfer_offset = 0
    /\ s_bytes_sent = 0
    /\ s_seq = 0
    /\ s_file_transfer_fp = "fp"
    /\ s_cccd_mask = 3
    /\ s_ft_q = [i \in 1..StopsWritten |-> Msg("STOP", <<>>)]
    /\ s_notify_sem = kMaxInFlight
    /\ pc = "loop"
    /\ path = PathOf(NameA)
    /\ fpos = 0
    /\ n = 0
    /\ eof = FALSE
    /\ pkt = <<>>
    /\ tries = 0
    /\ bpc = "idle"
    /\ att_mtu = DefaultMtu
    /\ sdAvail = TRUE
    /\ dir = BootDir
    /\ inflight = 0
    /\ fpOpen = TRUE
    /\ rx = <<>>
    /\ emitted = <<>>
    /\ stopSeen = TRUE
    /\ sinceStop = 0
    /\ sincePause = 0
    /\ ras = RecorderInit
    /\ lastCmd = << "STOP" >>
    /\ fsTouched = FALSE
    /\ events = 0

\* the peer goes on writing STOP and START; card, link and transport work
\* without a fault
BusyNext ==
    \/ CmdStop
    \/ CmdStart
    \/ WorkerStart("ok")
    \/ WorkerInit
    \/ WorkerStop
    \/ WorkerLoop(TRUE)
    \/ WorkerCredit
    \/ WorkerSend("ok")
    \/ WorkerEnd
    \/ NotifyTx(0)

SpecBusy == BusyInit /\ [][BusyNext]_vars

(* ------------- automatic selection over many directories --------------- *)

\* the entries readdir may return in first and second place: a .raw name in
\* lower or upper case, regular file or directory, empty or not, with a
\* modification time from 0 (a card written without a clock) to MaxMtime
LatestNames == << NameA, << "b", ".", "R", "A", "W" >> >>
LatestEntries(k) ==
    { Entry(LatestNames[k], rg, sz, mt) :
        rg \in BOOLEAN, sz \in { 0, 1 }, mt \in 0..MaxMtime }
LatestDirs ==
    { <<>> }
    \cup { << e1 >> : e1 \in LatestEntries(1) }
    \cup { << e1, e2 >> : e1 \in LatestEntries(1), e2 \in LatestEntries(2) }

LatestInit == \E d \in LatestDirs : ReadyInit(d, DefaultMtu)

\* the peer writes START with no file selected; the worker picks the file
LatestNext ==
    \/ CmdStart
    \/ WorkerStart("ok")
    \/ WorkerInit

SpecLatest == LatestInit /\ [][LatestNext]_vars

(* ------------- a session under back-pressure, no other fault ----------- *)

\* the only recording is a.raw, several chunks long
CreditDir == << Entry(NameA, TRUE, SizeA, 1) >>

CreditInit == ReadyInit(CreditDir, DefaultMtu)

\* one step of file_xfer_task when the card and the transport work: the only
\* thing that can go wrong is that no credit arrives within 200 ms
CreditWorker ==
    \/ WorkerStart("ok")
    \/ WorkerInit
    \/ WorkerLoop(TRUE)
    \/ WorkerCredit
    \/ WorkerCreditTimeout
    \/ WorkerSend("ok")
    \/ WorkerEnd

\* the peer stays connected and subscribed and writes START only
CreditNext ==
    \/ CmdStart
    \/ CreditWorker
    \/ NotifyTx(0)

\* the worker task runs whenever it can, and the stack confirms every
\* notification it accepted
SpecCredit ==
    /\ CreditInit
    /\ [][CreditNext]_vars
    /\ WF_vars(CreditWorker)
    /\ WF_vars(NotifyTx(0))

(* --------------------------- the recorder alone ------------------------- *)

\* everything outside raw_audio_storage.c
Elsewhere == << globals, locals, bpc, envvars, obs, budgets >>

RecStart ==
    /\ \E fw \in WriteOutcomes, seekOk \in BOOLEAN, hw0 \in WriteOutcomes,
          opened \in BOOLEAN, hw \in WriteOutcomes :
          ras' = raw_audio_storage_start_recording(ras, fw, seekOk, hw0, opened, hw)
    /\ UNCHANGED Elsewhere

RecAdd ==
    /\ ras.adds < MaxAdds
    /\ \E w \in WriteOutcomes, hit \in BOOLEAN, clobber \in RecSampleValues :
          ras' = raw_audio_storage_add_sample(ras, w, hit, clobber)
    /\ UNCHANGED Elsewhere

RecStop ==
    /\ \E fw \in WriteOutcomes, seekOk \in BOOLEAN, hw \in WriteOutcomes :
          ras' = raw_audio_storage_stop_recording(ras, fw, seekOk, hw)
    /\ UNCHANGED Elsewhere

RecInit == ReadyInit(BootDir, DefaultMtu)

RecNext ==
    \/ RecStart
    \/ RecAdd
    \/ RecStop

SpecRec == RecInit /\ [][RecNext]_vars

(* ------------------------------- claims -------------------------------- *)

\* the payloads the transport accepted in the current session, in order
RxBytes == Flatten([i \in 1..Len(rx) |-> PktPayload(rx[i])])

\* the bytes of the file the current session reads
SessionFile == IF Exists(dir, path) THEN Content(EntryAt(dir, path)) ELSE <<>>

EofChunks == { i \in 1..Len(rx) : PktEof(rx[i]) = 1 }

\* C1: in every state the accepted payloads of the session, concatenated in
\* order, are a prefix of the file; in the state where the Complete status has
\* just been emitted they are the whole file, exactly one accepted chunk has
\* eof = 1 and it is the last.
C1_RoundTrip ==
    /\ IsPrefix(RxBytes, SessionFile)
    /\ emitted = << STAT_COMPLETE >> =>
          /\ RxBytes = SessionFile
          /\ EofChunks = { Len(rx) }
          /\ Len(rx) > 0

\* C2: the i-th packet the transport accepted in a session carries sequence
\* number i - 1: no gap, no repeat, no reordering.
C2_SeqContiguous == \A i \in 1..Len(rx) : PktSeq(rx[i]) = i - 1

\* C3: in every state at most kMaxInFlight accepted data chunks wait for
\* their NOTIFY_TX event, and the credit count lies in 0..kMaxInFlight.
C3_CreditBound ==
    /\ inflight <= kMaxInFlight
    /\ s_notify_sem >= 0
    /\ s_notify_sem <= kMaxInFlight

\* C3 witness: three chunks are unconfirmed, the pool is empty and the worker
\* waits for a credit for the next chunk.
C3_Witness == inflight = kMaxInFlight /\ s_notify_sem = 0 /\ pc = "credit"

\* C4: when the worker is back at the queue and every accepted chunk has had
\* its NOTIFY_TX event, all kMaxInFlight credits are available again.
C4_NoLeak == (pc = "wait" /\ inflight = 0) => s_notify_sem = kMaxInFlight

\* a well-formed start-type command is handled
StartCommand ==
    \/ CmdStart
    \/ \E nm \in { m \in PeerNames : is_valid_filename(m) } : CmdStartWithFilename(nm)
    \/ \E i \in 0..2, opened \in BOOLEAN : CmdSelectFile(i, opened)

\* C5: a well-formed START, START_WITH_FILENAME or SELECT_FILE handled while
\* the transfer-active flag is set emits AlreadyRunning, enqueues nothing and
\* leaves offset, sequence number, file handle and source path as they were.
C5_AlreadyRunning ==
    [][ (s_file_transfer_active /\ lastCmd' # <<>> /\ StartCommand) =>
            /\ emitted' = << STAT_ALREADY_RUNNING >>
            /\ s_ft_q' = s_ft_q
            /\ UNCHANGED << s_file_transfer_offset, s_bytes_sent, s_seq,
                            s_file_transfer_fp, s_current_raw_file,
                            s_file_transfer_active, s_file_transfer_paused >> ]_vars

\* C5 witness: AlreadyRunning has just been emitted in the middle of a
\* running session (the worker is in its send loop, bytes were sent).
C5_Witness ==
    /\ emitted = << STAT_ALREADY_RUNNING >>
    /\ s_file_transfer_active
    /\ pc \in { "loop", "credit", "send" }
    /\ s_file_transfer_offset > 0

\* C6: the recording-active flag and the transfer-active flag are never both
\* set.
C6_MutualExclusion == ~ (s_is_recording /\ s_file_transfer_active)

\* C7: in the step in which the worker sets the transfer-active flag, both
\* subscription bits are set.
C7_ActiveOnlySubscribed ==
    [][ (~ s_file_transfer_active /\ s_file_transfer_active') => notifies_ready ]_vars

\* a step that rejects a start request: a start handler that enqueues nothing,
\* or the worker refusing the START it dequeued (in WorkerStart, or in
\* WorkerInit for a file of size 0)
RejectStep ==
    \/ StartCommand /\ s_ft_q' = s_ft_q
    \/ (\E io \in { "ok", "open_fail", "seek_fail" } : WorkerStart(io)) /\ pc' = "wait"
    \/ WorkerInit /\ pc' = "wait"

\* C8: a step that rejects a start request leaves the active and paused flags,
\* offset, sequence number, file handle and source path unchanged.
C8_RejectMutatesNothing ==
    [][ RejectStep =>
            UNCHANGED << s_file_transfer_active, s_file_transfer_paused,
                         s_file_transfer_offset, s_seq, s_file_transfer_fp,
                         s_current_raw_file >> ]_vars

\* C9: whenever the worker waits on the command queue, the transfer-active
\* flag is clear, the file handle is NULL and the file is closed.
C9_IdleAtWait ==
    pc = "wait" => /\ ~ s_file_transfer_active
                   /\ s_file_transfer_fp = "NULL"
                   /\ ~ fpOpen

\* C10: after a STOP was enqueued during an Active transfer, the transport
\* accepts at most one further data chunk of that session.
C10_StopAtChunkBoundary == sinceStop <= 1

\* a session that was paused and not resumed, with bytes still to send
PausedSession ==
    /\ s_file_transfer_paused
    /\ s_file_transfer_active
    /\ fpOpen
    /\ s_file_transfer_offset < s_file_transfer_size

\* C11: pausing does not end the session: while a session is paused (PAUSE
\* accepted, no RESUME yet, bytes left) no step of the worker's send loop or
\* of its end-of-session code clears the active flag, closes the file or
\* moves offset and sequence number; the session waits for RESUME.
C11_PauseKeepsSession ==
    [][ (PausedSession /\ (WorkerLoop(TRUE) \/ WorkerEnd)) =>
            /\ s_file_transfer_active'
            /\ fpOpen'
            /\ UNCHANGED << s_file_transfer_fp, s_file_transfer_offset, s_seq >> ]_vars

\* the peer disconnected while the worker was inside its send loop
DisconnectedMidTransfer ==
    /\ ~ s_file_transfer_active
    /\ pc \in { "loop", "credit", "send" }

\* C12: after a disconnect in the middle of a transfer the file the session
\* had published is closed by the disconnect handler, the transport accepts
\* no further data chunk of that session, and the step that creates the next
\* session leaves offset, bytes-sent and sequence number at 0.
C12_DisconnectCleanup ==
    [][ /\ (Disconnect /\ s_file_transfer_fp # "NULL") => ~ fpOpen'
        /\ DisconnectedMidTransfer => rx' = rx
        /\ (pc = "wait" /\ pc' = "init") =>
               /\ s_file_transfer_offset' = 0
               /\ s_bytes_sent' = 0
               /\ s_seq' = 0 ]_vars

\* SELECT_FILE with index i is handled with the start preconditions met and
\* at least as large as the candidate count
SelectBeyond(i) ==
    /\ CmdSelectFile(i, TRUE)
    /\ PreStatus = 0
    /\ i >= Len(SortedCandidates(dir))

\* what every rejected selection leaves alone
SelectCreatesNothing ==
    /\ s_ft_q' = s_ft_q
    /\ UNCHANGED << s_current_raw_file, session, pc >>

\* C13 as stated: for every candidate count n, n = 0 included, SELECT_FILE i
\* with i >= n emits InvalidIndex, enqueues nothing, creates no session and
\* leaves the selected path unchanged.
C13_InvalidIndex ==
    [][ \A i \in 0..2 : SelectBeyond(i) =>
            /\ emitted' = << STAT_INVALID_INDEX >>
            /\ SelectCreatesNothing ]_vars

\* C13 amended: with n >= 1 candidates SELECT_FILE i with i >= n emits
\* InvalidIndex, with n = 0 candidates every index emits NoFile; in both
\* cases nothing is enqueued, no session is created and the selected path is
\* unchanged.
C13_InvalidIndexOrNoFile ==
    [][ \A i \in 0..2 : SelectBeyond(i) =>
            /\ emitted' = << IF Len(SortedCandidates(dir)) = 0
                             THEN STAT_NO_FILE ELSE STAT_INVALID_INDEX >>
            /\ SelectCreatesNothing ]_vars

\* C13 witness: InvalidIndex has just been emitted for a directory with two
\* candidates, and nothing waits in the queue.
C13_Witness ==
    /\ emitted = << STAT_INVALID_INDEX >>
    /\ Len(SortedCandidates(dir)) = 2
    /\ s_ft_q = <<>>
    /\ ~ s_file_transfer_active

\* the name holds "..", "/" or "\"
Traversal(nm) ==
    \/ Contains(nm, <<".", ".">>)
    \/ Contains(nm, <<"/">>)
    \/ Contains(nm, <<"\\">>)

\* a request that was refused without a trace in the program state
NothingAccepted ==
    /\ ~ fsTouched'
    /\ s_ft_q' = s_ft_q
    /\ UNCHANGED << s_current_raw_file, session >>

SessionCreated == pc = "wait" /\ pc' = "init"

\* the directory entries find_latest_raw considers: regular files whose name
\* ends in .raw
RawEntries(d) == { i \in 1..Len(d) : d[i].reg /\ HasRawSuffixNoCase(d[i].name) }

\* p is the path of a .raw entry of d whose modification time is maximal
IsNewest(d, p) ==
    \E i \in RawEntries(d) :
        /\ PathOf(d[i].name) = p
        /\ \A j \in RawEntries(d) : d[j].mtime <= d[i].mtime

\* C15: a session the worker creates for a plain START reads a .raw file of
\* maximal modification time in the directory as it is at that moment.
C15_StartTakesNewest ==
    [][ (SessionCreated /\ Head(s_ft_q).want = <<>>) => IsNewest(dir, path') ]_vars

\* C16: a session the worker creates for a START_WITH_FILENAME or SELECT_FILE
\* command reads the file that command resolved.
C16_NamedTakesResolved ==
    [][ (SessionCreated /\ Head(s_ft_q).want # <<>>) => path' = Head(s_ft_q).want ]_vars

\* the attempt the worker is about to make is the last one the retry loop
\* allows, and it fails for want of a buffer or for congestion
LastAttemptFails ==
    /\ pc = "send"
    /\ tries = FT_MAX_RETRIES - 1
    /\ (WorkerSend("nomem") \/ WorkerSend("transient"))

\* C17: the attempts made for one chunk never exceed FT_MAX_RETRIES (at most
\* FT_MAX_RETRIES - 1 have failed when another one starts); when the last
\* allowed attempt fails transiently the session is aborted, NotifyFail is
\* emitted, exactly the credit held for the chunk goes back to the pool, and
\* the transport gets no further chunk of the session.
C17_RetryBound ==
    [][ /\ tries' < FT_MAX_RETRIES
        /\ LastAttemptFails =>
               /\ ~ s_file_transfer_active'
               /\ pc' = "end"
               /\ emitted' = IF s_file_transfer_conn_handle # 0
                             THEN << STAT_NOTIFY_FAIL >> ELSE <<>>
               /\ s_notify_sem' = s_notify_sem + 1
               /\ rx' = rx
        /\ pc = "end" => rx' = rx ]_vars

\* C17 witness: the retry loop has just given up on a chunk of a file with
\* bytes left: NotifyFail emitted, session no longer active, worker on its
\* way out, and the credit is back.
C17_Witness ==
    /\ pc = "end"
    /\ ~ s_file_transfer_active
    /\ emitted = << STAT_NOTIFY_FAIL >>
    /\ s_file_transfer_offset < s_file_transfer_size
    /\ s_notify_sem = kMaxInFlight
    /\ inflight = 0

\* the last step handled one of the seven commands of the control surface,
\* with a payload of admissible length
CommandHandled ==
    /\ lastCmd' # <<>>
    /\ lastCmd'[1] # "UNKNOWN"
    /\ lastCmd'[1] = "START_WITH_FILENAME" => Len(lastCmd'[2]) < SD_MAX_PATH

\* the worker answers a command it took from the queue: a START it refuses,
\* a START it accepts (answered when the session is set up), or a STOP
WorkerAnswers ==
    \/ (\E io \in { "ok", "open_fail", "seek_fail" } : WorkerStart(io)) /\ pc' = "wait"
    \/ WorkerInit
    \/ WorkerStop

\* C18: a command that is not handed to the worker is answered by its handler
\* with exactly one status; a command handed to the worker (an accepted start,
\* a STOP) is answered by no status of the handler and by exactly one status
\* of the worker when it takes the command up.
C18_OneStatusPerCommand ==
    [][ /\ (CommandHandled /\ s_ft_q' = s_ft_q) => Len(emitted') = 1
        /\ (CommandHandled /\ s_ft_q' # s_ft_q) => Len(emitted') = 0
        /\ (WorkerAnswers /\ s_file_transfer_conn_handle # 0) => Len(emitted') = 1 ]_vars

\* the step that took the worker out of its send loop emitted a failure status
FailureJustEmitted ==
    /\ pc = "end"
    /\ lastCmd = <<>>
    /\ emitted \in { << STAT_FILE_READ_FAIL >>, << STAT_NOTIFY_FAIL >>, << STAT_NO_CONN >> }

\* C19: the end of a session emits exactly one status and the matching one:
\* when the way out of the send loop already emitted the failure status, the
\* code after the loop emits nothing more; otherwise it emits Complete when
\* all bytes were sent and StoppedByHost when not.
C19_OneTerminalStatus ==
    [][ (WorkerEnd /\ s_file_transfer_conn_handle # 0) =>
            IF FailureJustEmitted
            THEN emitted' = <<>>
            ELSE emitted' = << IF s_file_transfer_offset = s_file_transfer_size
                                THEN STAT_COMPLETE ELSE STAT_STOPPED_BY_HOST >> ]_vars

\* the chunks accepted so far have the layout of the 57 chunks of the example
ExampleChunks ==
    /\ Len(rx) <= 57
    /\ \A i \in 1..Len(rx) :
          /\ PktSeq(rx[i]) = i - 1
          /\ PktLen(rx[i]) = Len(PktPayload(rx[i]))
          /\ PktLen(rx[i]) = IF i < 57 THEN 177 ELSE 88
          /\ PktEof(rx[i]) = IF i < 57 THEN 0 ELSE 1

\* C20: with MTU 185 the session over the 10,000-byte file emits 57 chunks
\* numbered 0..56, the first 56 of 177 payload bytes with eof=0 and the last
\* of 88 bytes with eof=1, and then exactly one Complete: the session ends
\* only after all 57 chunks, its end emits the single status Complete, and no
\* other step emits Complete.
C20_WorkedExample ==
    [][ /\ ExampleChunks'
        /\ pc' = "end" => Len(rx') = 57
        /\ WorkerEnd => emitted' = << STAT_COMPLETE >>
        /\ STAT_COMPLETE \in { emitted'[i] : i \in 1..Len(emitted') } => pc = "end" ]_vars

\* the session of the example is over: 57 chunks accepted, Complete emitted
C20_Witness ==
    /\ Len(rx) = 57
    /\ PktSeq(rx[57]) = 56 /\ PktLen(rx[57]) = 88 /\ PktEof(rx[57]) = 1
    /\ PktLen(rx[56]) = 177 /\ PktEof(rx[56]) = 0
    /\ RxBytes = Content(ExampleDir[1])
    /\ pc = "wait" /\ ~ s_file_transfer_active
    /\ emitted = << STAT_COMPLETE >>

\* the largest MTU ble_att_mtu is asked about here
MaxAttMtu == 527

\* the budget as the contract states it: clamp(MTU - 3 - 5, 1, 195), an MTU
\* reported as 0 or less counting as 23
ClampedBudget(mtu) ==
    LET m == IF mtu <= 0 THEN 23 ELSE mtu
        b == m - 3 - 5
    IN  IF b < 1 THEN 1 ELSE IF b > 195 THEN 195 ELSE b

\* C21: a chunk is built with 1..clamp(MTU - 3 - 5, 1, 195) payload bytes for
\* the MTU in force at that moment, so the packet fits the 200-byte buffer;
\* the packet is not touched again until it is submitted, the transport gets
\* just that packet, and a change of the MTU alters neither the packet built
\* nor the chunks already submitted: whatever the new MTU, the budget the next
\* chunk is built with is the clamp of it.
C21_ChunkWithinBudget ==
    [][ /\ (pc = "loop" /\ pc' = "credit") =>
              /\ PktLen(pkt') >= 1
              /\ PktLen(pkt') <= ClampedBudget(att_mtu)
              /\ PktLen(pkt') = Len(PktPayload(pkt'))
              /\ Len(pkt') <= 200
        /\ (pc \in { "credit", "send" } /\ pc' \in { "credit", "send" }) => pkt' = pkt
        /\ rx' \in { rx, <<>>, Append(rx, pkt) }
        /\ rx' = Append(rx, pkt) => pc = "send"
        /\ att_mtu' # att_mtu =>
              /\ pkt' = pkt /\ rx' = rx
              /\ \A m \in -1..MaxAttMtu : payload_budget(m) = ClampedBudget(m) ]_vars

\* the MTU went from 23 to the larger one between two chunks of a session:
\* the chunk submitted before has 15 bytes, the one built after has 17
C21_Witness ==
    /\ Len(rx) >= 2
    /\ PktLen(rx[1]) = DefaultMtu - 8
    /\ PktLen(rx[2]) = BigMtu - 8
    /\ att_mtu = BigMtu

\* the last step was a handler that accepted a start or stop command: a STOP,
\* or a start command of admissible length that met no rejection status
HandedToWorker ==
    /\ lastCmd' # <<>>
    /\ \/ lastCmd'[1] = "STOP"
       \/ /\ lastCmd'[1] \in { "START", "START_WITH_FILENAME", "SELECT_FILE" }
          /\ lastCmd'[1] = "START_WITH_FILENAME" => Len(lastCmd'[2]) < SD_MAX_PATH
          /\ emitted' \in { <<>>, << STAT_FILE_SELECTED >> }

\* C22: no accepted start or stop command is lost or duplicated on its way to
\* the worker: the handler that accepts a command appends exactly one message
\* of that command to the command channel, the worker takes exactly the oldest
\* message off it, and no other step changes the channel.
C22_ConsumedExactlyOnce ==
    [][ IF HandedToWorker
        THEN /\ Len(s_ft_q') = Len(s_ft_q) + 1
             /\ SubSeq(s_ft_q', 1, Len(s_ft_q)) = s_ft_q
             /\ s_ft_q'[Len(s_ft_q')].type = IF lastCmd'[1] = "STOP" THEN "STOP" ELSE "START"
        ELSE \/ s_ft_q' = s_ft_q
             \/ s_ft_q # <<>> /\ s_ft_q' = Tail(s_ft_q) ]_vars

\* the fields of the session: source path, total size, offset, bytes sent,
\* sequence number, file handle and active flag
SessionFields ==
    << s_current_raw_file, s_file_transfer_size, s_file_transfer_offset,
       s_bytes_sent, s_seq, s_file_transfer_fp, s_file_transfer_active >>

\* C23: the session fields have a single writer, the worker: a step of a
\* control-surface handler or of a transport event callback (the disconnect
\* callback included) leaves every session field as it was.
C23_SingleWriter ==
    [][ ( \/ Handlers
          \/ Connect
          \/ Disconnect
          \/ \E bit \in { 1, 2 }, on \in BOOLEAN : Subscribe(bit, on)
          \/ MtuExchange
          \/ \E status \in { 0, 1 } : NotifyTx(status) )
        => UNCHANGED SessionFields ]_vars

\* C24: at most one transfer session exists. The worker opens a transfer file
\* and sets up a session only when no session is active and no transfer file
\* is open; a START it takes up while a session is active is answered Busy and
\* opens nothing; and the one send loop runs only on the file of that session.
C24_OneSession ==
    [][ /\ SessionCreated => (~ s_file_transfer_active /\ ~ fpOpen)
        /\ ((\E io \in { "ok", "open_fail", "seek_fail" } : WorkerStart(io))
               /\ s_file_transfer_active) =>
              /\ pc' = "wait"
              /\ fpOpen' = fpOpen
              /\ emitted' = send_status(STAT_BUSY)
        /\ pc' = "wait" => ~ fpOpen' ]_vars

\* a START waited in the command channel while the session before it was set
\* up; that session has left its active flag set, and the worker has just
\* answered the waiting START with Busy and opened nothing
C24_Witness ==
    /\ pc = "wait"
    /\ s_file_transfer_active
    /\ ~ fpOpen
    /\ lastCmd = <<>>
    /\ emitted = << STAT_BUSY >>

\* C25: a timeout of the credit wait is pure backpressure: the session stays
\* active, offset and sequence number are unchanged, and the read position of
\* the file stands at the offset afterwards, so that the next chunk built
\* carries the bytes from the offset on.
C25_TimeoutIsBackpressure ==
    [][ WorkerCreditTimeout =>
            /\ UNCHANGED << s_file_transfer_active, s_file_transfer_offset, s_seq >>
            /\ fpos' = s_file_transfer_offset' ]_vars

\* C26: offset, bytes-sent counter and sequence number advance only in a step
\* in which the transport accepts the chunk, and Complete is emitted only when
\* the transport has accepted as many bytes as the file has.
C26_OnlyAcceptedCounted ==
    [][ /\ ( \/ s_file_transfer_offset' > s_file_transfer_offset
              \/ s_bytes_sent' > s_bytes_sent
              \/ s_seq' > s_seq ) => rx' = Append(rx, pkt)
        /\ (WorkerEnd /\ emitted' = << STAT_COMPLETE >>) =>
              Len(RxBytes) = s_file_transfer_size ]_vars

\* b is a permutation of a
IsPermutation(a, b) ==
    /\ Len(a) = Len(b)
    /\ \A k \in 1..Len(a) :
          Cardinality({ m \in 1..Len(a) : a[m] = a[k] })
            = Cardinality({ m \in 1..Len(b) : b[m] = a[k] })

\* SELECT_FILE was accepted in the last step
SelectAccepted ==
    /\ lastCmd' # <<>>
    /\ lastCmd'[1] = "SELECT_FILE"
    /\ emitted' = << STAT_FILE_SELECTED >>

\* C27: when SELECT_FILE i is accepted, the sorted list is a permutation of
\* the scanned candidates, non-increasing in modification time, i is smaller
\* than their number, and the path selected is that of its i-th entry: fewer
\* than i + 1 candidates are newer than the selected one and at least i + 1
\* are as new or newer, so that index 0 selects a candidate of maximal time.
C27_SelectByMtime ==
    [][ SelectAccepted =>
          LET i      == lastCmd'[2]
              scan   == Candidates(dir)
              sorted == SortedCandidates(dir)
              sel    == { k \in 1..Len(scan) : PathOf(scan[k].name) = s_current_raw_file' }
          IN  /\ i < Len(scan)
              /\ IsPermutation(scan, sorted)
              /\ \A k \in 1..(Len(sorted) - 1) : sorted[k].mtime >= sorted[k + 1].mtime
              /\ s_current_raw_file' = PathOf(sorted[i + 1].name)
              /\ Cardinality(sel) = 1
              /\ \A k \in sel :
                    /\ Cardinality({ m \in 1..Len(scan) : scan[m].mtime > scan[k].mtime }) <= i
                    /\ Cardinality({ m \in 1..Len(scan) : scan[m].mtime >= scan[k].mtime }) > i
                    /\ i = 0 => \A m \in 1..Len(scan) : scan[m].mtime <= scan[k].mtime ]_vars

\* three candidates in ascending order of time on the card; SELECT_FILE 2 has
\* selected the oldest, which readdir returned first
C27_Witness ==
    /\ Len(Candidates(dir)) = 3
    /\ dir[1].mtime < dir[2].mtime /\ dir[2].mtime < dir[3].mtime
    /\ lastCmd = << "SELECT_FILE", 2 >>
    /\ emitted = << STAT_FILE_SELECTED >>
    /\ s_current_raw_file = PathOf(dir[1].name)

IsSuffix(s, t) == Len(s) <= Len(t) /\ SubSeq(t, Len(t) - Len(s) + 1, Len(t)) = s

\* START_WITH_FILENAME was accepted in the last step
NamedAccepted ==
    /\ lastCmd' # <<>>
    /\ lastCmd'[1] = "START_WITH_FILENAME"
    /\ Len(s_ft_q') = Len(s_ft_q) + 1

\* C28: when START_WITH_FILENAME is accepted, the path it resolved is the
\* recordings directory plus the name if the name ends with ".raw" and the
\* directory plus the name plus ".raw" if not; it always ends with ".raw".
C28_ResolvedPath ==
    [][ NamedAccepted =>
          LET nm == CStr(lastCmd'[2])
          IN  /\ s_current_raw_file' = IF IsSuffix(RawExt, nm)
                                       THEN PathOf(nm) ELSE PathOf(nm \o RawExt)
              /\ IsSuffix(RawExt, s_current_raw_file') ]_vars

\* the names of the contract: 1 to 255 characters, each an ASCII letter, a
\* digit, '.', '_' or '-', and no ".." in it
AcceptableName(nm) ==
    /\ Len(nm) >= 1
    /\ Len(nm) <= 255
    /\ \A i \in 1..Len(nm) : nm[i] \in Alnum \cup { ".", "_", "-" }
    /\ \A i \in 1..(Len(nm) - 1) : ~ (nm[i] = "." /\ nm[i + 1] = ".")

\* START_WITH_FILENAME was handled in the last step
NamedHandled == lastCmd' # <<>> /\ lastCmd'[1] = "START_WITH_FILENAME"

FirstFailingCheck ==
    IF s_file_transfer_active THEN 33
    ELSE IF s_is_recording THEN 34
    ELSE IF ~ (HasBit(s_cccd_mask, 1) /\ HasBit(s_cccd_mask, 2)) THEN 64
    ELSE IF ~ sdAvail THEN 16
    ELSE 0

\* the last step handled START, SELECT_FILE or START_WITH_FILENAME with an
\* acceptable name
StartHandled ==
    /\ lastCmd' # <<>>
    /\ \/ lastCmd'[1] \in { "START", "SELECT_FILE" }
       \/ /\ lastCmd'[1] = "START_WITH_FILENAME"
          /\ Len(lastCmd'[2]) <= 255
          /\ AcceptableName(CStr(lastCmd'[2]))

\* C30: START, START_WITH_FILENAME with a valid name and SELECT_FILE, handled
\* in a state in which a precondition fails, each emit the status of the first
\* failing check (AlreadyRunning, Busy, SubscriptionRequired, FileOpenFail in
\* that order) and enqueue nothing; the status depends on the state only, so
\* the three commands get the same one.
C30_SamePreconditions ==
    [][ (FirstFailingCheck # 0 /\ StartHandled) =>
            /\ emitted' = << FirstFailingCheck >>
            /\ s_ft_q' = s_ft_q ]_vars

\* SELECT_FILE was rejected with Busy while a recording runs and the peer has
\* not subscribed: the recording check comes before the subscription check
C30_Witness ==
    /\ lastCmd # <<>> /\ lastCmd[1] = "SELECT_FILE"
    /\ emitted = << STAT_BUSY >>
    /\ s_is_recording /\ ~ notifies_ready
    /\ ~ s_file_transfer_active

\* C31: the k-th chunk of a session (k from 0) carries sequence number
\* k mod 65536, and while the session runs the bytes-sent counter is the sum
\* of the payload lengths of its chunks.
C31_SeqModulo ==
    /\ \A i \in 1..Len(rx) : PktSeq(rx[i]) = (i - 1) % 65536
    /\ (s_file_transfer_active /\ pc = "loop") => s_bytes_sent = Len(RxBytes)

\* C32: every packet the worker builds is a 5-byte header followed by the
\* payload: bytes 0-1 are the sequence number and bytes 2-3 the payload length,
\* both low byte first, byte 4 is 1 when offset plus payload length reaches the
\* total size and 0 otherwise, and the declared length is the number of payload
\* bytes; the packet handed to the transport is the packet that was built.
C32_PacketLayout ==
    [][ /\ (pc = "loop" /\ pkt' # <<>>) =>
              LET k == Len(pkt') - FILE_TRANSFER_HEADER_SIZE
              IN  /\ k >= 1
                  /\ pkt'[1] = s_seq % 256
                  /\ pkt'[2] = (s_seq \div 256) % 256
                  /\ pkt'[3] = k % 256
                  /\ pkt'[4] = (k \div 256) % 256
                  /\ pkt'[5] = IF s_file_transfer_offset + k >= s_file_transfer_size
                               THEN 1 ELSE 0
                  /\ k = n'
        /\ Len(rx') > Len(rx) => rx' = Append(rx, pkt)
      ]_vars

\* a session whose first chunk went out with eof = 0 and whose last chunk went
\* out with eof = 1
C32_Witness ==
    /\ Len(rx) >= 2
    /\ PktEof(rx[1]) = 0
    /\ PktEof(rx[Len(rx)]) = 1
    /\ \A i \in 1..Len(rx) : Len(rx[i]) = FILE_TRANSFER_HEADER_SIZE + PktLen(rx[i])

\* the entries automatic selection may pick: regular files named *.raw
LatestCandidates(d) ==
    { i \in 1..Len(d) : d[i].reg /\ HasRawSuffixNoCase(d[i].name) }

\* C33: when the worker takes a START with no file selected, no session
\* running and the link up, it reports NoFile exactly when the directory holds
\* no candidate, and otherwise opens a candidate whose modification time is
\* maximal, whatever the modification times are (0 included).
C33_LatestSelected ==
    [][ ( /\ pc = "wait" /\ s_ft_q # <<>> /\ Head(s_ft_q).type = "START"
          /\ lastCmd' = <<>> /\ s_ft_q' = Tail(s_ft_q)
          /\ s_current_raw_file = <<>>
          /\ ~ s_file_transfer_active /\ handles_valid /\ sdAvail ) =>
        IF LatestCandidates(dir) = {}
        THEN emitted' = << STAT_NO_FILE >>
        ELSE /\ emitted' # << STAT_NO_FILE >>
             /\ \E i \in LatestCandidates(dir) :
                    /\ path' = PathOf(dir[i].name)
                    /\ \A j \in LatestCandidates(dir) : dir[j].mtime <= dir[i].mtime
      ]_vars

\* C34: with the peer connected and subscribed, no Pause or Stop, a readable
\* file and a transport that accepts every submission and confirms every
\* accepted chunk, every session that has started eventually emits Complete,
\* however often the wait for a credit times out.
C34_EventuallyComplete ==
    (emitted = << STAT_STARTED >>) ~> (emitted = << STAT_COMPLETE >>)

\* C35: the file of a session is closed once and not used afterwards: the
\* worker's fclose(fp) after the send loop, the fclose(s_file_transfer_fp) of
\* the disconnect callback and of the STOP branch, and every fread of the send
\* loop act on a handle that is still open.
C35_ClosedOnce ==
    [][ /\ (pc = "end" /\ pc' = "wait") => fpOpen
        /\ (pc = "loop" /\ fpos' # fpos) => fpOpen
        /\ ( /\ s_file_transfer_fp # "NULL" /\ s_file_transfer_fp' = "NULL"
             /\ pc' = pc ) => fpOpen
      ]_vars

\* C36: once the Paused status has been emitted, the transport accepts at
\* most one further data chunk (the one the worker was building) until a Resume
\* takes effect or the worker accepts a new START.
C36_PauseAtChunkBoundary == sincePause <= 2

\* C37: after a recording was stopped, the file is a 32-byte header followed
\* by exactly total_samples records of 10 bytes: the total_samples field of
\* the header is the number of records and the file size is
\* 32 + 10 * total_samples, whatever the writes returned.
C37_FileMatchesHeader ==
    ras.stopped =>
        /\ ras.total_samples >= 0
        /\ ras.size = RecHeaderSize + RecSampleSize * ras.total_samples

\* C38: every store into the sample buffer uses an index strictly below
\* RAW_AUDIO_BUFFER_SIZE, after any sequence of start_recording, add_sample
\* and stop_recording and for every outcome of the writes.
C38_IndexBelowCapacity == ras.storedAt < RAW_AUDIO_BUFFER_SIZE

====
